---- MODULE Spec2Model ----
(***************************************************************************)
(* strumm.py: the SCUMM 5 text extractor.  Byte strings are sequences of   *)
(* character codes 0..255.  The recursive block walker is unfolded into a  *)
(* stack of _processSubBlocks frames; errors end the run with the name of  *)
(* the Python exception in status.                                         *)
(***************************************************************************)
EXTENDS Integers, Sequences, FiniteSets, TLC

VARIABLES
    scumm_ver,    \* args.scumm_ver
    arch,         \* how the archive on disk was laid out (input description)
    file,         \* the raw (encrypted) bytes of args.infile
    opened,       \* whether main has opened the file
    xor,          \* DecryptingStream._xor
    pos,          \* position of the underlying stream (tell)
    stack,        \* active _processSubBlocks calls, innermost last
    current_obj,  \* Processor._current_obj: key of the record, or None
    obj_dict,     \* Processor._obj_dict: header offset -> GameObj
    pc,           \* where the program is
    status,       \* "running", "ok", or the exception that ended the run
    last,         \* what the last walker step did (observation only)
    u_in,         \* argument of a stand-alone call of unescape
    u_out,        \* its outcome
    u_src,        \* the byte string u_in was escaped from, when it was
    rd,           \* last read of a stand-alone DecryptingStream
    tmp_files,    \* temporary files of _dissassembleScript left on disk
    err,          \* what the DescummError raised carries
    exit_status,  \* what sys.exit(main()) ends the process with, or None
    printed       \* object reports printed by Processor.process

vars == <<scumm_ver, arch, file, opened, xor, pos, stack, current_obj,
          obj_dict, pc, status, last, u_in, u_out, u_src, rd, tmp_files, err,
                   exit_status, printed>>

----------------------------------------------------------------------------
(* Bounds of the model *)

\* most sub-blocks laid out inside the OBCD block of an archive
MaxKids == 2

\* longest payload handed to a stand-alone call of unescape
MaxLen == 4

----------------------------------------------------------------------------
(* Program constants *)

hdr_size == 8

None == -1

LECF == <<76, 69, 67, 70>>
LFLF == <<76, 70, 76, 70>>
ROOM == <<82, 79, 79, 77>>
SCRP == <<83, 67, 82, 80>>
LSCR == <<76, 83, 67, 82>>
ENCD == <<69, 78, 67, 68>>
EXCD == <<69, 88, 67, 68>>
VERB == <<86, 69, 82, 66>>
OBCD == <<79, 66, 67, 68>>
OBNA == <<79, 66, 78, 65>>

ContainerTags == {LECF, LFLF, ROOM}

ScriptTags == {SCRP, LSCR, ENCD, EXCD, VERB}

\* print >> out_stream, "[String]"
String_line == <<91, 83, 116, 114, 105, 110, 103, 93, 10>>

----------------------------------------------------------------------------
(* The byte stream *)

Min(a, b) == IF a < b THEN a ELSE b

RECURSIVE BitXor(_, _, _)
BitXor(a, b, n) ==
    IF n = 0 THEN 0
    ELSE (((a % 2) + (b % 2)) % 2) + 2 * BitXor(a \div 2, b \div 2, n - 1)

\* file.read(n) at position p: short at the end of the file, '' beyond it
stream_read(f, p, n) ==
    IF p >= Len(f) \/ n = 0 THEN <<>>
    ELSE IF n < 0 THEN SubSeq(f, p + 1, Len(f))
    ELSE SubSeq(f, p + 1, Min(p + n, Len(f)))

\* file.tell() after that read
stream_tell_after(f, p, n) == p + Len(stream_read(f, p, n))

\* the key is added to every byte instead
decrypt_by_adding(data, k) ==
    IF k # 0 THEN [i \in 1..Len(data) |-> (data[i] + k) % 256] ELSE data

\* "".join(chr(ord(x) ^ self._xor) for x in data), skipped when the key is 0
decrypt(data, k) ==
    IF k # 0 THEN [i \in 1..Len(data) |-> BitXor(data[i], k, 8)] ELSE data

DecryptingStream_read(f, k, p, n) == decrypt(stream_read(f, p, n), k)

\* struct.unpack('>I', b)[0] for a 4-byte b
struct_unpack(b) == ((b[1] * 256 + b[2]) * 256 + b[3]) * 256 + b[4]

----------------------------------------------------------------------------
(* isValidBlockType *)

\* Python's a <= b on byte strings
RECURSIVE str_le(_, _)
str_le(a, b) ==
    IF a = <<>> THEN TRUE
    ELSE IF b = <<>> THEN FALSE
    ELSE IF a[1] < b[1] THEN TRUE
    ELSE IF a[1] > b[1] THEN FALSE
    ELSE str_le(Tail(a), Tail(b))

\* the loop runs over the characters but compares the whole block_type
isValidBlockType(block_type) ==
    \A i \in 1..Len(block_type) :
        str_le(<<65>>, block_type) /\ str_le(block_type, <<90>>)

----------------------------------------------------------------------------
(* unescape *)

isspace(c) == c = 32 \/ c \in 9..13

\* only the digits '0'..'9' and 'A'..'F' are digits
hexdigit_upper_only(c) ==
    IF c \in 48..57 THEN c - 48
    ELSE IF c \in 65..70 THEN c - 55
    ELSE -1

\* the value of one digit of int(..., 16), -1 for any other character
hexdigit(c) ==
    IF c \in 48..57 THEN c - 48
    ELSE IF c \in 97..102 THEN c - 87
    ELSE IF c \in 65..70 THEN c - 55
    ELSE -1

RECURSIVE lstrip(_)
lstrip(s) == IF s # <<>> /\ isspace(s[1]) THEN lstrip(Tail(s)) ELSE s

RECURSIVE rstrip(_)
rstrip(s) ==
    IF s # <<>> /\ isspace(s[Len(s)]) THEN rstrip(SubSeq(s, 1, Len(s) - 1))
    ELSE s

RECURSIVE hexvalue(_, _)
hexvalue(s, acc) ==
    IF s = <<>> THEN acc ELSE hexvalue(Tail(s), acc * 16 + hexdigit(s[1]))

\* int(s, 16) for the slice string[pos+1:pos+3] (at most two characters):
\* surrounding blanks and a sign are accepted, one digit is enough
int16(s) ==
    LET t == rstrip(lstrip(s))
        signed == t # <<>> /\ t[1] \in {43, 45}
        digits == IF signed THEN Tail(t) ELSE t
    IN  IF digits = <<>> \/ \E i \in 1..Len(digits) : hexdigit(digits[i]) = -1
        THEN [ok |-> FALSE, val |-> 0]
        ELSE [ok |-> TRUE,
              val |-> IF signed /\ t[1] = 45 THEN 0 - hexvalue(digits, 0)
                      ELSE hexvalue(digits, 0)]

\* the while loop of unescape from 0-based position p with `out` written
RECURSIVE unescape_from(_, _, _)
unescape_from(string, p, out) ==
    IF ~(p < Len(string)) THEN [kind |-> "ok", val |-> out]
    ELSE IF string[p + 1] # 92
    THEN unescape_from(string, p + 1, Append(out, string[p + 1]))
    ELSE IF ~(p + 1 < Len(string)) THEN [kind |-> "IndexError", val |-> <<>>]
    ELSE IF string[p + 2] = 120
    THEN LET v == int16(SubSeq(string, p + 3, Min(p + 4, Len(string))))
         IN  IF v.ok /\ v.val \in 0..255
             THEN unescape_from(string, p + 4, Append(out, v.val))
             ELSE [kind |-> "ValueError", val |-> <<>>]
    ELSE IF string[p + 2] = 92
    THEN unescape_from(string, p + 2, Append(out, 92))
    ELSE [kind |-> "WTFError", val |-> <<>>]

unescape(string) == unescape_from(string, 0, <<>>)

----------------------------------------------------------------------------
(* _handleScript: the disassembly is the sequence of the payloads of its   *)
(* Text("...") occurrences                                                 *)

\* the pattern with [^"\\]+ : a payload holding a backslash is not matched
TEXT_RE_match_no_escape(payload) ==
    payload # <<>> /\ \A i \in 1..Len(payload) : payload[i] \notin {34, 92}

\* TEXT_RE = Text\("([^"]+)"\): a payload matches when it is not empty
\* and holds no double quote
TEXT_RE_match(payload) ==
    payload # <<>> /\ \A i \in 1..Len(payload) : payload[i] # 34

TEXT_RE_findall(disasm) == SelectSeq(disasm, TEXT_RE_match)

\* the three print statements for one match
report_entry(text) == String_line \o text \o <<10>> \o <<10>>

RECURSIVE handleScript_from(_, _)
handleScript_from(matches, out) ==
    IF matches = <<>> THEN [kind |-> "ok", val |-> out]
    ELSE LET u == unescape(Head(matches))
         IN  IF u.kind # "ok" THEN [kind |-> u.kind, val |-> <<>>]
             ELSE handleScript_from(Tail(matches), out \o report_entry(u.val))

handleScript(disasm) == handleScript_from(TEXT_RE_findall(disasm), <<>>)

----------------------------------------------------------------------------
(* _readASCIIZ *)

RECURSIVE readASCIIZ_from(_, _, _, _)
readASCIIZ_from(f, k, p, out) ==
    LET ch == DecryptingStream_read(f, k, p, 1)
    IN  IF ch = <<0>> THEN [kind |-> "ok", val |-> out, pos |-> p + 1]
        ELSE IF ch = <<>>
        \* at the end of the file read(1) returns '' for ever: '' is not
        \* '\0', nothing is written, and the loop runs again
        THEN [kind |-> "Hang", val |-> out, pos |-> p]
        ELSE readASCIIZ_from(f, k, p + 1, out \o ch)

readASCIIZ(f, k, p) == readASCIIZ_from(f, k, p, <<>>)

----------------------------------------------------------------------------
(* The archives the runs are given *)

BE32(n) ==
    <<(n \div 16777216) % 256, (n \div 65536) % 256, (n \div 256) % 256,
      n % 256>>

\* a block as it lies in the file: tag, declared size, payload
Block(tag, declared, payload) == tag \o BE32(declared) \o payload

RECURSIVE Flatten(_)
Flatten(blocks) ==
    IF blocks = <<>> THEN <<>> ELSE Head(blocks) \o Flatten(Tail(blocks))

SeqsUpTo(S, n) == UNION {[1..k -> S] : k \in 0..n}

ABCD == <<65, 66, 67, 68>>
ZZZZ == <<90, 90, 90, 90>>
Ab1x == <<65, 98, 49, 33>>
Digits == <<49, 50, 51, 52>>

\* a well-formed OBNA block holding name n
NameBlock(n) == Block(OBNA, hdr_size + Len(n) + 1, n \o <<0>>)

\* a well-formed VERB block (one byte of bytecode)
VerbBlock == Block(VERB, 9, <<1>>)

Names == {<<70>>, <<70, 111>>}

\* sub-blocks of an OBCD block
ObjKids ==
    {NameBlock(n) : n \in Names}
    \cup {Block(OBNA, 10, <<70, 111>>),    \* no zero byte in the payload
          VerbBlock,
          Block(VERB, 10, <<1>>),          \* declares one byte too many
          Block(ABCD, 9, <<7>>)}

\* further sub-blocks, laid out alone in a nested OBCD block
OddKids ==
    {Block(OBNA, 11, <<70, 0, 71>>),       \* zero byte before the end
     Block(ABCD, 0, <<>>),                 \* declares less than a header
     Block(SCRP, 9, <<1>>)}

Pres == {<<>>, Block(ABCD, 9, <<7>>)}

Posts ==
    {<<>>, Block(ABCD, 9, <<7>>), VerbBlock,
     Block(OBCD, hdr_size + Len(VerbBlock), VerbBlock)}

LeafTags ==
    {LFLF, ROOM, SCRP, LSCR, ENCD, EXCD, VERB, OBCD, OBNA,
     ABCD, ZZZZ, Ab1x, Digits}

Leaves ==
    {Block(t, d, <<70, 0>>) : t \in LeafTags, d \in {0, 7, 10, 11}}
    \cup {Block(t, hdr_size, <<>>) : t \in LeafTags}

Keys == {0, 105}

\* archives with one OBCD block between optional neighbours
ObjArchives ==
    [magic : {LECF}, pre : Pres, hasobj : {TRUE},
     kids : SeqsUpTo(ObjKids, MaxKids), lie : {0 - 1, 0},
     wrap : {0}, wlie : {0}, post : Posts, key : {0}]

\* archives with the OBCD block nested in ROOM or LFLF/ROOM
NestArchives ==
    [magic : {LECF}, pre : {<<>>}, hasobj : {TRUE},
     kids : SeqsUpTo(ObjKids \cup OddKids, 1), lie : {0},
     wrap : {1, 2}, wlie : {0 - 1, 0, 1}, post : {<<>>}, key : Keys]

\* archives with one block directly under the root
LeafArchives ==
    [magic : {LECF, LFLF}, pre : {<<>>}, hasobj : {FALSE},
     kids : {<<b>> : b \in Leaves}, lie : {0},
     wrap : {0}, wlie : {0}, post : {<<>>}, key : {0}]

Archives == ObjArchives \cup NestArchives \cup LeafArchives

Wrapped(a, core) ==
    LET room == Block(ROOM, hdr_size + Len(core) + a.wlie, core)
    IN  IF a.wrap = 0 THEN core
        ELSE IF a.wrap = 1 THEN room
        ELSE Block(LFLF, hdr_size + Len(room), room)

\* offset of the OBCD block of an archive that lays one out
ObjOffset(a) == hdr_size + Len(a.pre) + hdr_size * a.wrap

\* the decrypted bytes of archive a
Plain(a) ==
    LET inner == Flatten(a.kids)
        core == IF a.hasobj
                THEN Block(OBCD, hdr_size + Len(inner) + a.lie, inner)
                ELSE inner
        body == a.pre \o Wrapped(a, core) \o a.post
    IN  Block(a.magic, hdr_size + Len(body), body)

\* the bytes on disk: every byte XORed with the key
OnDisk(a) == [i \in 1..Len(Plain(a)) |-> BitXor(Plain(a)[i], a.key, 8)]

\* what descumm may answer for a script block
H == <<72>>
X41 == <<92, 120, 52, 49>>
Empty == <<>>
BadEscape == <<92, 71>>

Disasms == {<<>>, <<H>>, <<H, X41>>, <<Empty, H>>, <<BadEscape>>}

\* what descumm may write to its standard error: nothing, or "E\n"
Stderrs == {<<>>, <<69, 10>>}

\* subprocess.Popen either raises OSError (descumm cannot be started) or
\* the process runs and communicate() returns its output and exit status
DescummRuns ==
    {[started |-> FALSE, returncode |-> 0, stdout |-> <<>>, stderr |-> <<>>]}
    \cup {[started |-> TRUE, returncode |-> 1, stdout |-> <<>>, stderr |-> e] :
             e \in Stderrs}
    \cup {[started |-> TRUE, returncode |-> 0, stdout |-> d, stderr |-> <<>>] :
             d \in Disasms}

\* tf.write(self._infile.read(size)): the bytes are staged, or the read or
\* the write raises IOError
Stagings == {"ok", "read IOError", "write IOError"}

----------------------------------------------------------------------------
(* State *)

GameObj ==
    [has_name |-> FALSE, name |-> <<>>, has_scripts |-> FALSE,
     scripts |-> <<>>]

\* ev, hdr, tag, raw_size, rel, ctx describe the last walker step (for
\* "return" and "overshoot" the container whose walk ended); n, staged,
\* disasm, returncode, result the most recent script block; name the most
\* recent result of _readASCIIZ; blk the header offset of the most recent
\* call of _processBlock; popen the number of times that call invoked
\* subprocess.Popen, stderr what descumm wrote to its standard error
NoLast ==
    [ev |-> "none", hdr |-> None, tag |-> <<>>, raw_size |-> 0, rel |-> 0,
     ctx |-> None, n |-> 0, staged |-> <<>>, disasm |-> <<>>,
     returncode |-> 0, result |-> <<>>, name |-> <<>>, blk |-> None,
     popen |-> 0, stderr |-> <<>>]

NoResult == [kind |-> "none", val |-> <<>>]

\* no call of a stand-alone DecryptingStream yet: op the method called, at
\* the position before it, n the size asked for, data what read returned,
\* ret what seek or tell returned
NoRead == [op |-> "none", at |-> 0, n |-> 0, data |-> <<>>, ret |-> None]

NoErr == [returncode |-> 0, stderr |-> <<>>]

Init ==
    /\ arch \in Archives
    /\ scumm_ver \in IF arch.hasobj /\ arch.kids = <<>> /\ arch.wrap = 0
                     THEN {5, 6} ELSE {5}
    /\ file = OnDisk(arch)
    /\ opened = FALSE
    /\ xor = 0
    /\ pos = 0
    /\ stack = <<>>
    /\ current_obj = None
    /\ obj_dict = [k \in {} |-> GameObj]
    /\ pc = "main"
    /\ status = "running"
    /\ last = NoLast
    /\ u_in = <<>>
    /\ u_out = NoResult
    /\ u_src = <<>>
    /\ rd = NoRead
    /\ tmp_files = 0
    /\ err = NoErr
    /\ exit_status = None
    /\ printed = {}

----------------------------------------------------------------------------
(* main *)

\* only versions below 5 are turned away
unsupported_version_below(ver) == ver < 5

\* if args.scumm_ver != 5
unsupported_version(ver) == ver # 5

\* args.scumm_ver != 5: the message is printed and main returns 1
mainBadVersion ==
    /\ pc = "main" /\ status = "running"
    /\ unsupported_version(scumm_ver)
    /\ status' = "VersionError"
    /\ UNCHANGED <<scumm_ver, arch, file, opened, xor, pos, stack,
                   current_obj, obj_dict, pc, last, u_in, u_out,
                   u_src, rd, tmp_files, err, exit_status, printed>>

\* the key from the first raw byte
xor_key(first) == BitXor(first, 76, 8)

\* open the file, derive the key, check the magic, build the Processor
mainOpen ==
    /\ pc = "main" /\ status = "running"
    /\ ~unsupported_version(scumm_ver)
    /\ opened' = TRUE
    /\ LET magic1 == stream_read(file, 0, 1)
           k == IF magic1 = <<>> THEN 0 ELSE xor_key(magic1[1])
           magic == DecryptingStream_read(file, k, 0, 4)
       IN  /\ xor' = k
           /\ status' = IF magic1 = <<>> THEN "IndexError"
                        ELSE IF magic # LECF THEN "ScummFileError"
                        ELSE "running"
           /\ pos' = IF magic1 = <<>> THEN stream_tell_after(file, 0, 1)
                     ELSE IF magic # LECF THEN stream_tell_after(file, 0, 4)
                     ELSE 0
           /\ pc' = IF magic1 # <<>> /\ magic = LECF THEN "block" ELSE pc
    /\ UNCHANGED <<scumm_ver, arch, file, stack, current_obj, obj_dict,
                   last, u_in, u_out, u_src, rd, tmp_files, err,
                   exit_status, printed>>

----------------------------------------------------------------------------
(* Processor._processBlock: the header at the current position *)

hdr_offset == pos

block_type == DecryptingStream_read(file, xor, pos, 4)

raw_field ==
    DecryptingStream_read(file, xor, stream_tell_after(file, pos, 4), 4)

\* tell() once both header reads are done
after_header ==
    stream_tell_after(file, stream_tell_after(file, pos, 4), 4)

\* struct.unpack needs exactly four bytes
HeaderRead == Len(raw_field) = 4

raw_size == struct_unpack(raw_field)

payload_size(raw) == raw - hdr_size

size == payload_size(raw_size)

\* where control goes when _processBlock returns
AfterBlock(stk) == IF stk = <<>> THEN "emit" ELSE "sub"

Header(ev) ==
    [last EXCEPT !.ev = ev, !.hdr = hdr_offset, !.tag = block_type,
                 !.raw_size = IF HeaderRead THEN raw_size ELSE 0,
                 !.rel = 0, !.ctx = current_obj, !.blk = hdr_offset,
                 !.popen = 0, !.stderr = <<>>]

\* the file ends inside the header: struct.error
processTruncated ==
    /\ pc = "block" /\ status = "running"
    /\ ~HeaderRead
    /\ pos' = after_header
    /\ status' = "StructError"
    /\ last' = Header("error")
    /\ UNCHANGED <<scumm_ver, arch, file, opened, xor, stack, current_obj,
                   obj_dict, pc, u_in, u_out, u_src, rd, tmp_files, err,
                   exit_status, printed>>

\* _processSubBlocks(size) is entered: end = tell() + size
Frame(hdr, tag, raw, p) ==
    [hdr |-> hdr, tag |-> tag, raw_size |-> raw, end |-> p + payload_size(raw)]

\* LECF, LFLF, ROOM
processContainer ==
    /\ pc = "block" /\ status = "running"
    /\ HeaderRead
    /\ block_type \in ContainerTags
    /\ pos' = after_header
    /\ stack' = Append(stack, Frame(hdr_offset, block_type, raw_size,
                                    after_header))
    /\ pc' = "sub"
    /\ last' = Header("enter")
    /\ UNCHANGED <<scumm_ver, arch, file, opened, xor, current_obj,
                   obj_dict, status, u_in, u_out, u_src, rd, tmp_files, err,
                   exit_status, printed>>

\* self._current_obj.scripts = result
assign_scripts(old, result) == result

\* only a negative status (death by a signal) counts as a failure
descumm_failed_by_signal(returncode) == returncode < 0

\* if cmd.returncode != 0
descumm_failed(returncode) == returncode # 0

\* SCRP, LSCR, ENCD, EXCD, VERB: seek back, stage raw_size bytes, run
\* descumm, collect the strings
processScript ==
    /\ pc = "block" /\ status = "running"
    /\ HeaderRead
    /\ block_type \in ScriptTags
    /\ \E stg \in Stagings : \E run \in DescummRuns :
        LET read_ok == stg # "read IOError"
            staged == IF read_ok
                      THEN DecryptingStream_read(file, xor, hdr_offset,
                                                 raw_size)
                      ELSE <<>>
            ran == stg = "ok" /\ run.started
            res == IF stg # "ok" THEN [kind |-> "IOError", val |-> <<>>]
                   ELSE IF ~run.started THEN [kind |-> "OSError", val |-> <<>>]
                   ELSE IF descumm_failed(run.returncode)
                   THEN [kind |-> "DescummError", val |-> <<>>]
                   ELSE handleScript(run.stdout)
            outcome == IF res.kind # "ok" THEN res.kind
                       ELSE IF block_type = VERB /\ current_obj = None
                       THEN "AttributeError"
                       ELSE "running"
        IN  /\ pos' = IF read_ok
                      THEN stream_tell_after(file, hdr_offset, raw_size)
                      ELSE hdr_offset
            /\ status' = outcome
            \* the file is created with delete=False; os.unlink runs in the
            \* finally clause of the try that follows the staging
            /\ tmp_files' = IF stg = "ok" THEN (tmp_files + 1) - 1
                            ELSE tmp_files + 1
            /\ err' = IF outcome = "DescummError"
                      THEN [returncode |-> run.returncode,
                            stderr |-> run.stderr]
                      ELSE err
            /\ obj_dict' =
                 IF outcome = "running" /\ block_type = VERB
                 THEN [obj_dict EXCEPT
                         ![current_obj].scripts = assign_scripts(@, res.val),
                         ![current_obj].has_scripts = TRUE]
                 ELSE obj_dict
            /\ pc' = IF outcome = "running" THEN AfterBlock(stack) ELSE pc
            /\ last' = [Header("leaf") EXCEPT
                          !.n = raw_size, !.staged = staged,
                          !.disasm = IF ran THEN run.stdout ELSE <<>>,
                          !.returncode = IF ran THEN run.returncode ELSE 0,
                          !.result = res.val,
                          !.popen = IF stg = "ok" THEN 1 ELSE 0,
                          !.stderr = IF ran THEN run.stderr ELSE <<>>]
    /\ UNCHANGED <<scumm_ver, arch, file, opened, xor, stack, current_obj,
                   u_in, u_out, u_src, rd, exit_status, printed>>

\* OBCD: a new GameObj becomes the current object and is registered
processOBCD ==
    /\ pc = "block" /\ status = "running"
    /\ HeaderRead
    /\ block_type = OBCD
    /\ current_obj' = hdr_offset
    /\ obj_dict' = [k \in DOMAIN obj_dict \cup {hdr_offset} |->
                      IF k = hdr_offset THEN GameObj ELSE obj_dict[k]]
    /\ pos' = after_header
    /\ stack' = Append(stack, Frame(hdr_offset, block_type, raw_size,
                                    after_header))
    /\ pc' = "sub"
    /\ last' = Header("enter")
    /\ UNCHANGED <<scumm_ver, arch, file, opened, xor, status, u_in, u_out,
                   u_src, rd, tmp_files, err, exit_status, printed>>

\* OBNA: self._current_obj.name = self._readASCIIZ()
processOBNA ==
    /\ pc = "block" /\ status = "running"
    /\ HeaderRead
    /\ block_type = OBNA
    /\ LET r == readASCIIZ(file, xor, after_header)
           outcome == IF r.kind # "ok" THEN r.kind
                      ELSE IF current_obj = None THEN "AttributeError"
                      ELSE "running"
       IN  /\ pos' = r.pos
           /\ status' = outcome
           /\ obj_dict' =
                IF outcome = "running"
                THEN [obj_dict EXCEPT ![current_obj].name = r.val,
                                      ![current_obj].has_name = TRUE]
                ELSE obj_dict
           /\ pc' = IF outcome = "running" THEN AfterBlock(stack) ELSE pc
           /\ last' = [Header("leaf") EXCEPT !.name = r.val]
    /\ UNCHANGED <<scumm_ver, arch, file, opened, xor, stack, current_obj,
                   u_in, u_out, u_src, rd, tmp_files, err,
                   exit_status, printed>>

\* any other tag: barf, or seek(size, os.SEEK_CUR)
processOther ==
    /\ pc = "block" /\ status = "running"
    /\ HeaderRead
    /\ block_type \notin ContainerTags \cup ScriptTags \cup {OBCD, OBNA}
    /\ IF ~isValidBlockType(block_type)
       THEN /\ status' = "WTFError"
            /\ pos' = after_header
            /\ pc' = pc
            /\ last' = Header("leaf")
       ELSE /\ status' = status
            /\ pos' = after_header + size
            /\ pc' = AfterBlock(stack)
            /\ last' = [Header("leaf") EXCEPT !.rel = size]
    /\ UNCHANGED <<scumm_ver, arch, file, opened, xor, stack, current_obj,
                   obj_dict, u_in, u_out, u_src, rd, tmp_files, err,
                   exit_status, printed>>

----------------------------------------------------------------------------
(* Processor._processSubBlocks, for the innermost active call *)

Top == stack[Len(stack)]

\* the loop gives up one byte early
loop_cond_early(p, end) == p + 1 < end

\* while self._infile.tell() < end
loop_cond(p, end) == p < end

\* the check lets one byte of overshoot pass
overshot_by_two(p, end) == p > end + 1

\* if self._infile.tell() > end
overshot(p, end) == p > end

subBlocksNext ==
    /\ pc = "sub" /\ status = "running"
    /\ loop_cond(pos, Top.end)
    /\ pc' = "block"
    /\ UNCHANGED <<scumm_ver, arch, file, opened, xor, pos, stack,
                   current_obj, obj_dict, status, last, u_in, u_out,
                   u_src, rd, tmp_files, err, exit_status, printed>>

subBlocksOvershoot ==
    /\ pc = "sub" /\ status = "running"
    /\ ~loop_cond(pos, Top.end)
    /\ overshot(pos, Top.end)
    /\ status' = "WTFError"
    /\ last' = [last EXCEPT !.ev = "overshoot", !.hdr = Top.hdr,
                            !.tag = Top.tag, !.raw_size = Top.raw_size,
                            !.rel = 0, !.ctx = current_obj]
    /\ UNCHANGED <<scumm_ver, arch, file, opened, xor, pos, stack,
                   current_obj, obj_dict, pc, u_in, u_out,
                   u_src, rd, tmp_files, err, exit_status, printed>>

\* the walk returns, and with it the _processBlock call of the container
subBlocksReturn ==
    /\ pc = "sub" /\ status = "running"
    /\ ~loop_cond(pos, Top.end)
    /\ ~overshot(pos, Top.end)
    /\ stack' = SubSeq(stack, 1, Len(stack) - 1)
    /\ pc' = AfterBlock(stack')
    /\ last' = [last EXCEPT !.ev = "return", !.hdr = Top.hdr,
                            !.tag = Top.tag, !.raw_size = Top.raw_size,
                            !.rel = 0, !.ctx = current_obj]
    /\ UNCHANGED <<scumm_ver, arch, file, opened, xor, pos, current_obj,
                   obj_dict, status, u_in, u_out, u_src, rd, tmp_files, err,
                   exit_status, printed>>

----------------------------------------------------------------------------
(* Processor.process, after the walk: print the objects *)

\* the two print statements for one object
report(k) == [key |-> k, name |-> obj_dict[k].name,
              scripts |-> obj_dict[k].scripts, whole |-> TRUE]

\* the first print statement alone: value.scripts raised
report_header(k) == [key |-> k, name |-> obj_dict[k].name,
                     scripts |-> <<>>, whole |-> FALSE]

\* the loop over self._obj_dict.items(), in whatever order the dictionary
\* yields them: reading an attribute that was never assigned raises
\* AttributeError and ends the loop
emit ==
    /\ pc = "emit" /\ status = "running"
    /\ LET complete == {k \in DOMAIN obj_dict :
                           obj_dict[k].has_name /\ obj_dict[k].has_scripts}
           incomplete == DOMAIN obj_dict \ complete
       IN  IF incomplete = {}
           THEN /\ status' = "ok"
                /\ printed' = {report(k) : k \in DOMAIN obj_dict}
           ELSE /\ status' = "AttributeError"
                /\ \E bad \in incomplete : \E before \in SUBSET complete :
                     printed' = {report(k) : k \in before}
                                \cup (IF obj_dict[bad].has_name
                                      THEN {report_header(bad)} ELSE {})
    /\ pc' = "done"
    /\ UNCHANGED <<scumm_ver, arch, file, opened, xor, pos, stack,
                   current_obj, obj_dict, last, u_in, u_out, u_src, rd,
                   tmp_files, err, exit_status>>

----------------------------------------------------------------------------
(* sys.exit(main()) *)

\* main returns 1 from the version check and from its three except clauses
\* and None after processor.process(); any other exception leaves main and
\* ends the interpreter with status 1
mainExit ==
    /\ pc \in {"main", "block", "sub", "emit", "done"}
    /\ status \notin {"running", "Hang"}
    /\ exit_status = None
    /\ exit_status' = IF status = "ok" THEN 0 ELSE 1
    /\ UNCHANGED <<scumm_ver, arch, file, opened, xor, pos, stack,
                   current_obj, obj_dict, pc, status, last, u_in, u_out,
                   u_src, rd, tmp_files, err, printed>>

----------------------------------------------------------------------------

Next ==
    \/ mainBadVersion
    \/ mainOpen
    \/ processTruncated
    \/ processContainer
    \/ processScript
    \/ processOBCD
    \/ processOBNA
    \/ processOther
    \/ subBlocksNext
    \/ subBlocksOvershoot
    \/ subBlocksReturn
    \/ emit
    \/ mainExit

Spec == Init /\ [][Next]_vars

----------------------------------------------------------------------------
(* unescape called on its own *)

EscChars == {92, 120, 52, 71, 32}

InitUnescape ==
    /\ arch \in {a \in ObjArchives :
                    a.kids = <<>> /\ a.pre = <<>> /\ a.post = <<>>
                    /\ a.lie = 0}
    /\ scumm_ver = 5
    /\ file = OnDisk(arch)
    /\ opened = FALSE
    /\ xor = 0
    /\ pos = 0
    /\ stack = <<>>
    /\ current_obj = None
    /\ obj_dict = [k \in {} |-> GameObj]
    /\ pc = "unescape"
    /\ status = "running"
    /\ last = NoLast
    /\ u_in \in SeqsUpTo(EscChars, MaxLen)
    /\ u_out = NoResult
    /\ u_src = <<>>
    /\ rd = NoRead
    /\ tmp_files = 0
    /\ err = NoErr
    /\ exit_status = None
    /\ printed = {}

callUnescape ==
    /\ pc = "unescape"
    /\ u_out' = unescape(u_in)
    /\ pc' = "unescaped"
    /\ UNCHANGED <<scumm_ver, arch, file, opened, xor, pos, stack,
                   current_obj, obj_dict, status, last, u_in, u_src, rd,
                   tmp_files, err, exit_status, printed>>

NextUnescape == callUnescape

SpecUnescape == InitUnescape /\ [][NextUnescape]_vars

----------------------------------------------------------------------------
(* Properties *)

\* the decrypted byte at 0-based offset i of the file
PlainAt(i) == BitXor(file[i + 1], xor, 8)

\* C1: every block header read with declared_size < 8, whatever its tag, is
\* rejected with the corruption error (a container at the latest when its
\* walk is entered), and no seek goes backwards by declared_size - 8.
C1_SmallBlockRejected ==
    (last.ev \in {"enter", "leaf", "return"} /\ last.raw_size < hdr_size) =>
        /\ last.rel >= 0
        /\ last.ev # "return"
        /\ \/ status = "WTFError"
           \/ last.ev = "enter" /\ pc = "sub" /\ overshot(pos, Top.end)

\* C2: when the walk of a container's sub-blocks stands past the container's
\* header_offset + declared_size, by one byte or more, its next step raises
\* the overshoot error; the walk does not return.
C2_OvershootRaises ==
    [][(pc = "sub" /\ status = "running"
        /\ pos >= Top.hdr + Top.raw_size + 1)
       => (status' = "WTFError" /\ last'.ev = "overshoot"
           /\ stack' = stack)]_vars

\* a walk that ended exactly one byte past the container's end
C2_Witness ==
    /\ status = "WTFError"
    /\ last.ev = "overshoot"
    /\ last.raw_size > hdr_size
    /\ pos = last.hdr + last.raw_size + 1

\* C3: whenever the walk of a container's sub-blocks has returned, the
\* stream position is exactly the container's header_offset + declared_size.
C3_ReturnsAtDeclaredEnd ==
    last.ev = "return" => pos = last.hdr + last.raw_size

\* the walk of an OBCD block with sub-blocks has returned
C3_Witness ==
    /\ last.ev = "return"
    /\ last.tag = OBCD
    /\ last.raw_size > hdr_size
    /\ status = "running"
    /\ pos = last.hdr + last.raw_size

\* C4: a VERB block processed while an object is in context appends its
\* report to that object's scripts: what earlier VERB blocks reported stays.
C4_VerbAppends ==
    [][(pc = "block" /\ status = "running" /\ HeaderRead
        /\ block_type = VERB /\ current_obj # None /\ status' = "running")
       => obj_dict'[current_obj].scripts
            = obj_dict[current_obj].scripts \o last'.result]_vars

\* the archive lays out one OBCD block holding OBNA(n), VERB, and no script
\* or object block outside it
C5_Archive(n) ==
    /\ arch.magic = LECF
    /\ arch.hasobj
    /\ arch.kids = <<NameBlock(n), VerbBlock>>
    /\ arch.lie = 0
    /\ arch.wlie = 0
    /\ arch.post \in {<<>>, Block(ABCD, 9, <<7>>)}

\* one [String] entry per payload, in order
RECURSIVE C5_Entries(_)
C5_Entries(payloads) ==
    IF payloads = <<>> THEN <<>>
    ELSE String_line \o unescape(Head(payloads)).val \o <<10, 10>>
         \o C5_Entries(Tail(payloads))

C5_Record(n) ==
    /\ ObjOffset(arch) \in DOMAIN obj_dict
    /\ obj_dict[ObjOffset(arch)].has_name
    /\ obj_dict[ObjOffset(arch)].name = n
    /\ obj_dict[ObjOffset(arch)].scripts = C5_Entries(last.disasm)

C6_SlotOnlyInsideOBCD ==
    current_obj # None => \E i \in 1..Len(stack) : stack[i].tag = OBCD

\* C7: an OBNA block (of a declared size of 8 or more, its name terminated)
\* processed while no object is in context fails with the corruption error
\* WTFError.
C7_NameWithoutObjectRejected ==
    (last.ev = "leaf" /\ last.tag = OBNA /\ last.ctx = None
     /\ last.raw_size >= hdr_size /\ status # "Hang")
    => status = "WTFError"

AllUpper(tag) == \A i \in 1..Len(tag) : tag[i] \in 65..90

\* C8: for a tag outside the recognized set the corruption error is raised
\* exactly when some byte is outside 'A'..'Z'; otherwise the block is
\* skipped by advancing payload_size bytes.
C8_UnknownTagHandling ==
    (last.ev = "leaf"
     /\ last.tag \notin ContainerTags \cup ScriptTags \cup {OBCD, OBNA})
    => /\ (status = "WTFError") <=> ~AllUpper(last.tag)
       /\ AllUpper(last.tag)
            => /\ status = "running"
               /\ pos = last.hdr + hdr_size + (last.raw_size - hdr_size)

\* offsets (0-based) of the zero bytes at or after offset p
ZerosFrom(p) == {i \in p..(Len(file) - 1) : PlainAt(i) = 0}

FirstZero(p) == CHOOSE i \in ZerosFrom(p) : \A j \in ZerosFrom(p) : i <= j

\* C9: the string reader ends on every stream: with a zero byte ahead it
\* returns the bytes before it and has consumed it; with none it ends in an
\* I/O error.
C9_ReaderTerminates ==
    (last.ev = "leaf" /\ last.tag = OBNA) =>
        IF ZerosFrom(last.hdr + hdr_size) # {}
        THEN /\ status \in {"running", "AttributeError"}
             /\ pos = FirstZero(last.hdr + hdr_size) + 1
             /\ Len(last.name) = FirstZero(last.hdr + hdr_size)
                                   - (last.hdr + hdr_size)
             /\ \A i \in 1..Len(last.name) :
                    last.name[i] = PlainAt(last.hdr + hdr_size + i - 1)
        ELSE status = "IOError"

IsHex(c) == c \in (48..57) \cup (65..70) \cup (97..102)

\* the payload holds, read left to right, a backslash followed by a
\* character other than backslash or x, or \x not followed by two hex digits
RECURSIVE C10_Malformed(_, _)
C10_Malformed(s, i) ==
    IF i >= Len(s) THEN FALSE
    ELSE IF s[i] # 92 THEN C10_Malformed(s, i + 1)
    ELSE IF s[i + 1] = 92 THEN C10_Malformed(s, i + 2)
    ELSE IF s[i + 1] # 120 THEN TRUE
    ELSE IF i + 3 <= Len(s) /\ IsHex(s[i + 2]) /\ IsHex(s[i + 3])
    THEN C10_Malformed(s, i + 4)
    ELSE TRUE

\* C10: unescape raises WTFError on every payload with a malformed escape.
C10_MalformedRaises ==
    (pc = "unescaped" /\ C10_Malformed(u_in, 1)) => u_out.kind = "WTFError"

----------------------------------------------------------------------------
(* C11: unescape after the escaping scheme                                 *)

\* longest byte string that is escaped and unescaped again
MaxStr == 3

\* bytes of the strings escaped: NUL, newline, unit separator, double quote,
\* 'A', backslash, 'x', DEL, 0xAB and 0xFF
SrcBytes == {0, 10, 31, 34, 65, 92, 120, 127, 171, 255}

\* the hexadecimal digit of v (0..15): '0'..'9', then 'A'..'F' or 'a'..'f'
HexChar(v, upper) == IF v < 10 THEN 48 + v ELSE IF upper THEN 55 + v ELSE 87 + v

\* a byte is printable when it lies in ' '..'~'
printable(b) == b \in 32..126

\* the escaping scheme of the claim, with upper-case or lower-case digits:
\* a backslash is doubled, a non-printable byte b becomes \xHH
RECURSIVE escape(_, _)
escape(s, upper) ==
    IF s = <<>> THEN <<>>
    ELSE LET b == Head(s)
             e == IF b = 92 THEN <<92, 92>>
                  ELSE IF ~printable(b)
                  THEN <<92, 120, HexChar(b \div 16, upper),
                         HexChar(b % 16, upper)>>
                  ELSE <<b>>
         IN  e \o escape(Tail(s), upper)

\* unescape is called with the escaped form of a drawn byte string
InitRoundTrip ==
    /\ arch \in {a \in ObjArchives :
                    a.kids = <<>> /\ a.pre = <<>> /\ a.post = <<>>
                    /\ a.lie = 0}
    /\ scumm_ver = 5
    /\ file = OnDisk(arch)
    /\ opened = FALSE
    /\ xor = 0
    /\ pos = 0
    /\ stack = <<>>
    /\ current_obj = None
    /\ obj_dict = [k \in {} |-> GameObj]
    /\ pc = "unescape"
    /\ status = "running"
    /\ last = NoLast
    /\ u_src \in SeqsUpTo(SrcBytes, MaxStr)
    /\ u_in \in {escape(u_src, upper) : upper \in BOOLEAN}
    /\ u_out = NoResult
    /\ rd = NoRead
    /\ tmp_files = 0
    /\ err = NoErr
    /\ exit_status = None
    /\ printed = {}

NextRoundTrip == callUnescape

SpecRoundTrip == InitRoundTrip /\ [][NextRoundTrip]_vars

\* C11: for every byte string s, unescape(escape(s)) returns s: once
\* unescape has been called with the escaped form of u_src its outcome is
\* the string u_src itself, without an exception.
C11_UnescapeInvertsEscape ==
    pc = "unescaped" => u_out = [kind |-> "ok", val |-> u_src]

\* a string holding a backslash and a non-printable byte whose escape has a
\* letter digit went through both functions
C11_Witness ==
    /\ pc = "unescaped"
    /\ u_src = <<92, 171, 120>>
    /\ u_in = <<92, 92, 92, 120, 97, 98, 120>>
    /\ u_out.val = u_src

----------------------------------------------------------------------------
(* C12: a DecryptingStream on its own                                      *)

\* bytes of the underlying stream, keys, sizes passed to read
StreamBytes == {0, 76, 255}
StreamKeys == {0, 1, 105, 255}
ReadSizes == {-1, 0, 1, 2, 3}

\* DecryptingStream(stream, xor) over a drawn underlying stream
InitStream ==
    /\ arch \in {a \in ObjArchives :
                    a.kids = <<>> /\ a.pre = <<>> /\ a.post = <<>>
                    /\ a.lie = 0}
    /\ scumm_ver = 5
    /\ file \in SeqsUpTo(StreamBytes, MaxLen)
    /\ opened = TRUE
    /\ xor \in StreamKeys
    /\ pos = 0
    /\ stack = <<>>
    /\ current_obj = None
    /\ obj_dict = [k \in {} |-> GameObj]
    /\ pc = "stream"
    /\ status = "running"
    /\ last = NoLast
    /\ u_in = <<>>
    /\ u_out = NoResult
    /\ u_src = <<>>
    /\ rd = NoRead
    /\ tmp_files = 0
    /\ err = NoErr
    /\ exit_status = None
    /\ printed = {}

\* DecryptingStream.read(n)
streamRead ==
    /\ pc = "stream"
    /\ \E n \in ReadSizes :
        /\ rd' = [op |-> "read", at |-> pos, n |-> n,
                  data |-> DecryptingStream_read(file, xor, pos, n),
                  ret |-> None]
        /\ pos' = stream_tell_after(file, pos, n)
    /\ UNCHANGED <<scumm_ver, arch, file, opened, xor, stack, current_obj,
                   obj_dict, pc, status, last, u_in, u_out, u_src,
                   tmp_files, err, exit_status, printed>>

\* DecryptingStream.seek(offset): self._stream.seek(offset), which may lie
\* past the end of the file
streamSeek ==
    /\ pc = "stream"
    /\ \E offset \in 0..(Len(file) + 1) :
        /\ offset # pos
        /\ rd' = [op |-> "seek", at |-> pos, n |-> offset, data |-> <<>>,
                  ret |-> None]
        /\ pos' = offset
    /\ UNCHANGED <<scumm_ver, arch, file, opened, xor, stack, current_obj,
                   obj_dict, pc, status, last, u_in, u_out, u_src,
                   tmp_files, err, exit_status, printed>>

\* DecryptingStream.tell(): self._stream.tell()
streamTell ==
    /\ pc = "stream"
    /\ rd' = [op |-> "tell", at |-> pos, n |-> 0, data |-> <<>>, ret |-> pos]
    /\ UNCHANGED <<scumm_ver, arch, file, opened, xor, pos, stack,
                   current_obj, obj_dict, pc, status, last, u_in, u_out,
                   u_src, tmp_files, err, exit_status, printed>>

NextStream == streamRead \/ streamSeek \/ streamTell

SpecStream == InitStream /\ [][NextStream]_vars

\* C12: read returns the bytes of the underlying stream, each XORed with
\* the key, so that the same transform applied to what read returned gives
\* the underlying bytes back; with key 0 read returns the underlying bytes;
\* after read, seek and tell the position is the one the underlying stream
\* has without decryption, and tell returns it.
C12_XorInvolutionPassThrough ==
    LET raw == stream_read(file, rd.at, rd.n)
    IN  /\ rd.op = "read" =>
            /\ Len(rd.data) = Len(raw)
            /\ \A i \in 1..Len(raw) : rd.data[i] = BitXor(raw[i], xor, 8)
            /\ decrypt(rd.data, xor) = raw
            /\ (xor = 0 => rd.data = raw)
            /\ pos = rd.at + Len(raw)
        /\ rd.op = "seek" => pos = rd.n
        /\ rd.op = "tell" => rd.ret = pos /\ pos = rd.at

\* two bytes were read under a key other than 0 from the middle of a stream
\* and came back changed
C12_Witness ==
    /\ rd.op = "read" /\ rd.at = 1 /\ rd.n = 2
    /\ xor = 105
    /\ file = <<76, 0, 255, 76>>
    /\ rd.data = <<105, 150>>
    /\ pos = 3

----------------------------------------------------------------------------
(* C13, C14: the temporary file and a failing descumm                      *)

\* C13: when _dissassembleScript has been left for a script block, by
\* return or by any exception (staging error, descumm not startable,
\* non-zero exit), no temporary file it created remains.
C13_TempFileRemoved ==
    (last.ev = "leaf" /\ last.tag \in ScriptTags) => tmp_files = 0

\* C14: a script block for which descumm exited with a non-zero status
\* ends the run with DescummError carrying that exit code and the captured
\* standard error; descumm was invoked once for the block; as long as the
\* error stands the failed block is the last one processed and nothing has
\* been printed; the exit status is 1 once the process has ended, and the
\* process can end.
C14_NonZeroExitEndsRun ==
    /\ (last.ev = "leaf" /\ last.tag \in ScriptTags /\ last.popen = 1
        /\ last.returncode # 0)
       => /\ status = "DescummError"
          /\ err = [returncode |-> last.returncode, stderr |-> last.stderr]
    /\ status = "DescummError"
       => /\ last.ev = "leaf" /\ last.tag \in ScriptTags
          /\ last.popen = 1 /\ last.returncode # 0
          /\ pos = last.hdr + Len(last.staged)
          /\ printed = {}
          /\ exit_status \in {None, 1}
          /\ (exit_status = None => ENABLED mainExit)

\* descumm exited with status 1 and "E\n" on its standard error for a VERB
\* block inside an object that is followed by further blocks, and the
\* process has ended
C14_Witness ==
    /\ status = "DescummError"
    /\ last.tag = VERB /\ last.ctx # None
    /\ err = [returncode |-> 1, stderr |-> <<69, 10>>]
    /\ pos < Len(file)
    /\ exit_status = 1

----------------------------------------------------------------------------
(* C15: the version check *)

\* C15: on a run whose version argument is not 5 the archive is never
\* opened and nothing is read from it; the only outcome is the version
\* error, the run can always proceed to it and to its end, and it ends with
\* status 1.
C15_VersionCheckedBeforeFileAccess ==
    scumm_ver # 5 =>
        /\ ~opened /\ pos = 0 /\ xor = 0 /\ last = NoLast
        /\ status \in {"running", "VersionError"}
        /\ (status = "running" => ENABLED mainBadVersion)
        /\ exit_status \in {None, 1}
        /\ (status = "VersionError" /\ exit_status = None => ENABLED mainExit)

\* a run with version 6 on a well-formed archive has ended
C15_Witness ==
    /\ scumm_ver = 6
    /\ status = "VersionError"
    /\ exit_status = 1
    /\ ~opened
    /\ Len(file) > hdr_size

----------------------------------------------------------------------------
(* C16: the report *)

\* C16: when the walk has completed without error and the report has been
\* printed, printing succeeded and for every record of the registry the
\* header line with its offset and name and its scripts text were printed,
\* also for a record that never got a name or never got scripts.
C16_EveryRecordEmitted ==
    pc = "done" =>
        /\ status = "ok"
        /\ \A k \in DOMAIN obj_dict :
             \E e \in printed :
                 /\ e.key = k /\ e.whole
                 /\ e.name = obj_dict[k].name
                 /\ e.scripts = obj_dict[k].scripts

----------------------------------------------------------------------------
(* C17: the order of the headers *)

\* C17: every call of _processBlock after the first reads its header at an
\* offset greater than the offset of the header read by the call before it.
C17_NoBacktracking ==
    [][(pc = "block" /\ status = "running" /\ last.blk # None)
         => last'.blk > last.blk]_vars

----------------------------------------------------------------------------
(* C18, C19: what a block consumes *)

\* the decrypted bytes of the file from 0-based offset p, n of them
PlainFrom(p, n) == [i \in 1..n |-> PlainAt(p + i - 1)]

\* C18: when _dissassembleScript has returned for a script block, the bytes
\* it staged for descumm are the declared_size bytes of the file that start
\* at the block's header, and the stream stands at header_offset +
\* declared_size.
C18_BridgeGetsWholeBlock ==
    (last.ev = "leaf" /\ last.tag \in ScriptTags /\ status = "running") =>
        /\ last.n = last.raw_size
        /\ Len(last.staged) = last.raw_size
        /\ last.hdr + last.raw_size <= Len(file)
        /\ last.staged = PlainFrom(last.hdr, last.raw_size)
        /\ pos = last.hdr + last.raw_size

\* C19: when _processBlock has handled a block without error (a leaf block
\* of any kind, or a container or object whose sub-block walk has returned)
\* the stream stands at the block's header_offset + declared_size.
C19_BlockConsumesDeclaredSize ==
    (last.ev \in {"leaf", "return"} /\ status = "running") =>
        pos = last.hdr + last.raw_size

----------------------------------------------------------------------------
(* C20: which record a block changes *)

\* header offset of the innermost OBCD block being walked whose range
\* [hdr, hdr + raw_size) holds offset p, or None
InnermostOBCD(stk, p) ==
    LET idx == {i \in 1..Len(stk) :
                   /\ stk[i].tag = OBCD
                   /\ stk[i].hdr <= p /\ p < stk[i].hdr + stk[i].raw_size}
    IN  IF idx = {} THEN None
        ELSE stk[CHOOSE i \in idx : \A j \in idx : j <= i].hdr

\* C20: a step that processes an OBNA or VERB block leaves every record of
\* the registry as it was, except the record of the innermost OBCD block
\* whose range holds the block; outside every OBCD range it leaves all
\* records as they were.
C20_OnlyEnclosingRecordChanges ==
    [][(pc = "block" /\ status = "running" /\ HeaderRead
        /\ block_type \in {OBNA, VERB})
         => \A k \in DOMAIN obj_dict :
                k # InnermostOBCD(stack, hdr_offset)
                  => k \in DOMAIN obj_dict' /\ obj_dict'[k] = obj_dict[k]]_vars

====
